---------------------------- MODULE Spec2Model ----------------------------
(***************************************************************************)
(* Model of the batch analytics pipeline of Fin_helper:                    *)
(*   src/src/preprocessing.py            (percentile-band strategy)        *)
(*   src/src/preprocessing_timeseries.py (parametric z-band strategy)      *)
(* and of the output directory ./data that both write and the dashboards   *)
(* (src/app/main.py, src/app/app_final.py) read.                           *)
(*                                                                         *)
(* Column names of the source are Cyrillic; they are transliterated here:  *)
(*   klyuch_klienta = client key, oborot_* = turnover, vozrast = age,      *)
(*   kogorta = cohort, tranzakcii_kol = transaction count,                 *)
(*   koncentraciya = concentration, tip = type, prioritet = priority,      *)
(*   tekushchiy_oborot = current turnover, otklonenie_pct = deviation %,   *)
(*   obshchiy_oborot = total turnover, razmer_kogorty = cohort size.       *)
(*                                                                         *)
(* Numbers: the source computes in binary floating point.  The model       *)
(* computes the same formulas in exact rational arithmetic (a rational is  *)
(* a record [n, d], d > 0, in lowest terms); a standard deviation is kept  *)
(* as the square root of a rational (its variance), and a z-band bound     *)
(* mean +/- z*std as the triple (mean, sign, variance).                    *)
(***************************************************************************)
EXTENDS Integers, Sequences, FiniteSets, TLC

(***************************************************************************)
(* Bounds of the model.                                                    *)
(***************************************************************************)
\* Rows of an extract of several clients.
MaxRows == 3
\* Periods of one client's history over one turnover column.
MaxHist == 7
\* Periods of one client's history over both turnover columns.
MaxWide == 2
\* Periods of one client's history of monthly amounts 100 and 1000.
MaxScenario == 6
\* Runs of the two scripts against the same output directory, and the rows
\* of the extract they read.
MaxRuns == 2
MaxIoRows == 2
\* Periods of one client's history whose amounts may be negative.
MaxSigned == 3

\* Client keys, turnover amounts and ages an extract may hold.
Clients == {1, 2, 3}
Amounts == {0, 1, 2}
\* A numeric cell is a sequence of at most one number: <<>> is the
\* undefined value (NaN), <<v>> the number v.
NaN == <<>>
Ages == {<<30>>, NaN}

\* Turnover column families: every column whose name starts with oborot_.
Cats == {"oborot_a", "oborot_b"}

(***************************************************************************)
(* Exact arithmetic.                                                       *)
(***************************************************************************)
Abs(x) == IF x < 0 THEN -x ELSE x

RECURSIVE GCD(_, _)
GCD(a, b) == IF b = 0 THEN a ELSE GCD(b, a % b)

\* The rational n/d (d /= 0) in lowest terms with a positive denominator.
Rat(n, d) ==
    LET s == IF d < 0 THEN -1 ELSE 1
        g == GCD(Abs(n), Abs(d))
    IN  [n |-> (s * n) \div g, d |-> (s * d) \div g]

RInt(k) == [n |-> k, d |-> 1]
RAdd(a, b) == Rat(a.n * b.d + b.n * a.d, a.d * b.d)
RSub(a, b) == Rat(a.n * b.d - b.n * a.d, a.d * b.d)
RMul(a, b) == Rat(a.n * b.n, a.d * b.d)
\* a / b, b /= 0
RDiv(a, b) == Rat(a.n * b.d, a.d * b.n)
RLt(a, b) == a.n * b.d < b.n * a.d
RLe(a, b) == a.n * b.d <= b.n * a.d
RAbs(a) == [n |-> Abs(a.n), d |-> a.d]
RSq(a) == RMul(a, a)

RECURSIVE SumSeq(_)
SumSeq(s) == IF s = <<>> THEN 0 ELSE Head(s) + SumSeq(Tail(s))

RECURSIVE SumSqSeq(_)
SumSqSeq(s) == IF s = <<>> THEN 0 ELSE Head(s) * Head(s) + SumSqSeq(Tail(s))

RECURSIVE Flatten(_)
Flatten(ss) == IF ss = <<>> THEN <<>> ELSE Head(ss) \o Flatten(Tail(ss))

Positive(s) == SelectSeq(s, LAMBDA x : x > 0)

\* np.sort with the order reversed.
np_sort_descending(s) == SortSeq(s, LAMBDA a, b : a > b)

\* np.sort
np_sort(s) == SortSeq(s, LAMBDA a, b : a < b)


(***************************************************************************)
(* numpy reductions used by the source, on a non-empty sequence of         *)
(* integers.                                                               *)
(***************************************************************************)
\* ndarray.mean()
np_mean(a) == Rat(SumSeq(a), Len(a))

\* np.median: the middle element, or the mean of the two middle elements.
np_median(a) ==
    LET s == np_sort(a)
        n == Len(a)
    IN  IF n % 2 = 1 THEN RInt(s[(n + 1) \div 2])
        ELSE Rat(s[n \div 2] + s[n \div 2 + 1], 2)

\* ndarray.var() with ddof = 0: sum((x - mean)^2) / n = (n*sum(x^2) - sum(x)^2) / n^2
np_var(a) ==
    LET n == Len(a)
        S == SumSeq(a)
    IN  Rat(n * SumSqSeq(a) - S * S, n * n)

\* np.percentile(a, q), method 'linear': the virtual index is (n-1)*q/100;
\* the result interpolates between the two neighbouring order statistics.
np_percentile(a, q) ==
    LET s == np_sort(a)
        n == Len(a)
        v == (n - 1) * q
        lo == v \div 100
        g == v % 100
    IN  IF g = 0 THEN RInt(s[lo + 1])
        ELSE Rat(100 * s[lo + 1] + g * (s[lo + 2] - s[lo + 1]), 100)

\* The last k elements of a sequence (a[-k:]).
LastK(s, k) == IF Len(s) <= k THEN s ELSE SubSeq(s, Len(s) - k + 1, Len(s))

(***************************************************************************)
(* The extract (a DataFrame).  key: whether the column klyuch_klienta      *)
(* exists; cols: the columns whose name starts with oborot_; rows: one     *)
(* record per client per period with the fields klyuch_klienta (when key), *)
(* vozrast and ob (the amount in each turnover column).  derived: the      *)
(* columns that a stage has added to the frame in place.                   *)
(***************************************************************************)
CatSeq == <<"oborot_a", "oborot_b">>

\* [col for col in df.columns if col.startswith('oborot_')], in column order
oboroty_cols(df) == SelectSeq(CatSeq, LAMBDA c : c \in df.cols)

\* row[oboroty_cols].values
RowValues(row, cols) == [i \in 1..Len(cols) |-> row.ob[cols[i]]]

\* client_data[oboroty_cols].values.flatten()
CellValues(rows, cols) == Flatten([i \in 1..Len(rows) |-> RowValues(rows[i], cols)])

\* df['klyuch_klienta'].unique(): the keys in order of first appearance
RECURSIVE unique(_)
unique(rows) ==
    IF rows = <<>> THEN <<>>
    ELSE LET r == rows[Len(rows)]
             u == unique(SubSeq(rows, 1, Len(rows) - 1))
         IN  IF \E i \in 1..Len(u) : u[i] = r.klyuch_klienta THEN u
             ELSE Append(u, r.klyuch_klienta)

\* df[df['klyuch_klienta'] == client_id]
ClientData(df, client_id) == SelectSeq(df.rows, LAMBDA r : r.klyuch_klienta = client_id)

(***************************************************************************)
(* preprocessing.calculate_client_baseline                                 *)
(***************************************************************************)
\* Lines 57-59: the band is the 15th and the 85th percentile.
CiLowerPct == 15
CiUpperPct == 85
\* Line 64: the pair behind the dispersion ratio.
IqrUpperPct == 65
IqrLowerPct == 35

\* Line 58
ci_lower_of(oborots) == np_percentile(oborots, CiLowerPct)

\* Line 59, with the percentile of line 58 pasted in.
ci_upper_pasted(oborots) == np_percentile(oborots, CiLowerPct)

\* Line 59
ci_upper_of(oborots) == np_percentile(oborots, CiUpperPct)

\* Lines 64-65 with the two percentiles in the other order.
iqr_swapped(oborots) ==
    RSub(np_percentile(oborots, IqrLowerPct), np_percentile(oborots, IqrUpperPct))

\* Lines 64-65: q75, q25 = np.percentile(oborots, [65, 35]); iqr = q75 - q25
iqr_of(oborots) ==
    RSub(np_percentile(oborots, IqrUpperPct), np_percentile(oborots, IqrLowerPct))

\* Line 44 left out: the amounts as they are.
positive_oborots_unfiltered(oborots) == oborots

\* Line 44: oborots = oborots[oborots > 0]
positive_oborots(oborots) == Positive(oborots)

\* Lines 75-79 with the quotient of line 77 turned over.
concentration_inverted(all_spending) ==
    LET top3_sum == IF Len(all_spending) >= 3
                    THEN SumSeq(LastK(np_sort(all_spending), 3))
                    ELSE SumSeq(all_spending)
    IN  IF Len(all_spending) > 0 THEN Rat(SumSeq(all_spending), top3_sum) ELSE RInt(0)

\* Lines 75-79: the three largest of the positive amounts over their sum.
concentration_of(all_spending) ==
    LET top3_sum == IF Len(all_spending) >= 3
                    THEN SumSeq(LastK(np_sort(all_spending), 3))
                    ELSE SumSeq(all_spending)
    IN  IF Len(all_spending) > 0 THEN Rat(top3_sum, SumSeq(all_spending)) ELSE RInt(0)

\* The body of the loop for one client whose positive amounts are oborots
\* (non-empty): lines 50-95.
BaselineRow(client_id, client_data, cols, oborots) ==
    LET mean_oborot == np_mean(oborots)
        median_oborot == np_median(oborots)
        iqr == iqr_of(oborots)
        all_spending == Positive(CellValues(client_data, cols))
    IN  [klyuch_klienta |-> client_id,
         oborot_mean    |-> mean_oborot,
         oborot_std     |-> [sqrt |-> np_var(oborots)],
         cv             |-> IF median_oborot.n > 0 THEN RDiv(iqr, median_oborot) ELSE RInt(0),
         ci_lower       |-> ci_lower_of(oborots),
         ci_upper       |-> ci_upper_of(oborots),
         tranzakcii_kol |-> Len(Positive(CellValues(client_data, cols))),
         koncentraciya  |-> concentration_of(all_spending),
         vozrast        |-> client_data[1].vozrast,
         region         |-> "neizvesten"]

\* Lines 37-95: the loop over df['klyuch_klienta'].unique(); a client with no
\* positive amount is skipped (line 46).
RECURSIVE BaselineLoop(_, _)
BaselineLoop(df, ids) ==
    IF ids = <<>> THEN <<>>
    ELSE LET client_id == Head(ids)
             client_data == ClientData(df, client_id)
             oborots == positive_oborots(CellValues(client_data, oboroty_cols(df)))
             rest == BaselineLoop(df, Tail(ids))
         IN  IF Len(oborots) = 0 THEN rest
             ELSE <<BaselineRow(client_id, client_data, oboroty_cols(df), oborots)>> \o rest

\* Line 98 left out: every row is kept.
dropna_missing(rows) == rows

\* DataFrame.dropna(): rows with an undefined field are dropped.
dropna(rows) == SelectSeq(rows, LAMBDA r : r.vozrast # NaN)

\* The call as a whole: [exc, val].  KeyError when the key column is
\* missing (line 39), and when no client had a positive amount: the frame
\* built from an empty list has no columns and line 101 reads
\* baseline_df['oborot_mean'].
calculate_client_baseline(df) ==
    IF ~df.key THEN [exc |-> "KeyError", val |-> <<>>]
    ELSE LET baseline_stats == BaselineLoop(df, unique(df.rows))
         IN  IF baseline_stats = <<>> THEN [exc |-> "KeyError", val |-> <<>>]
             ELSE [exc |-> "none", val |-> dropna(baseline_stats)]

(***************************************************************************)
(* preprocessing.identify_anomalies                                        *)
(***************************************************************************)
\* Line 147: the priority threshold on abs(deviation_pct).
PriorityPct == 30

\* format(x, '.0f'): the nearest integer, a tie going to the even one.
Format0f(x) ==
    LET q == x.n \div x.d
        r == x.n % x.d
    IN  IF 2 * r < x.d THEN q
        ELSE IF 2 * r > x.d THEN q + 1
        ELSE IF q % 2 = 0 THEN q ELSE q + 1

\* Line 137: ((current_oborot - mean_oborot) / (mean_oborot + 1)) * 100
DeviationPct(current_oborot, mean_oborot) ==
    RMul(RDiv(RSub(current_oborot, mean_oborot), RAdd(mean_oborot, RInt(1))), RInt(100))

\* Line 136 with the comparisons made inclusive.
IsAnomaly_inclusive(current_oborot, ci_lower, ci_upper) ==
    RLe(current_oborot, ci_lower) \/ RLe(ci_upper, current_oborot)

\* Line 136
IsAnomaly(current_oborot, ci_lower, ci_upper) ==
    RLt(current_oborot, ci_lower) \/ RLt(ci_upper, current_oborot)

\* Line 140 with the two labels swapped.
AnomalyType_swapped(current_oborot, ci_upper) ==
    IF RLt(ci_upper, current_oborot) THEN "nizkie rashody" ELSE "vysokie rashody"

\* Line 140
AnomalyType(current_oborot, ci_upper) ==
    IF RLt(ci_upper, current_oborot) THEN "vysokie rashody" ELSE "nizkie rashody"

\* Line 146 without abs().
StoredDeviation_signed(deviation_pct) == deviation_pct

\* Line 146: the value stored under otklonenie_%
StoredDeviation(deviation_pct) == RAbs(deviation_pct)

\* Line 147
Priority(deviation_pct) ==
    IF RLt(RInt(PriorityPct), RAbs(deviation_pct)) THEN "vysokiy" ELSE "sredniy"

\* baseline_df[baseline_df['klyuch_klienta'] == client_id]
BaselineOf(baseline_df, client_id) ==
    SelectSeq(baseline_df, LAMBDA b : b.klyuch_klienta = client_id)

\* Lines 131-148 for one row whose client has the baseline row b.
AnomalyRecords(client_id, current_oborot, b) ==
    LET deviation_pct == DeviationPct(current_oborot, b.oborot_mean)
    IN  IF IsAnomaly(current_oborot, b.ci_lower, b.ci_upper)
        THEN << [klyuch_klienta     |-> client_id,
                 tip                |-> AnomalyType(current_oborot, b.ci_upper),
                 tekushchiy_oborot  |-> current_oborot,
                 ozhidaemyy_diapazon |-> <<Format0f(b.ci_lower), Format0f(b.ci_upper)>>,
                 otklonenie_pct     |-> StoredDeviation(deviation_pct),
                 prioritet          |-> Priority(deviation_pct)] >>
        ELSE <<>>

\* Lines 117-129 with a zero band in place of the skip of line 128.
RowAnomalies_default(row, cols, baseline_df) ==
    LET oborots == Positive(RowValues(row, cols))
        baseline == BaselineOf(baseline_df, row.klyuch_klienta)
        zero == [oborot_mean |-> RInt(0), ci_lower |-> RInt(0), ci_upper |-> RInt(0)]
    IN  IF Len(oborots) = 0 THEN <<>>
        ELSE AnomalyRecords(row.klyuch_klienta, np_mean(oborots),
                            IF Len(baseline) = 0 THEN zero ELSE baseline[1])

\* Lines 117-129 with a row without a positive amount taken as a period
\* with the observation 0 in place of the skip of line 122.
RowAnomalies_zero(row, cols, baseline_df) ==
    LET oborots == Positive(RowValues(row, cols))
        baseline == BaselineOf(baseline_df, row.klyuch_klienta)
    IN  IF Len(baseline) = 0 THEN <<>>
        ELSE AnomalyRecords(row.klyuch_klienta,
                            IF Len(oborots) = 0 THEN RInt(0) ELSE np_mean(oborots),
                            baseline[1])

\* Lines 117-129 for one row: a row without a positive amount is skipped
\* (line 122), and so is a row whose client has no baseline row (line 128).
RowAnomalies(row, cols, baseline_df) ==
    LET oborots == Positive(RowValues(row, cols))
        baseline == BaselineOf(baseline_df, row.klyuch_klienta)
    IN  IF Len(oborots) = 0 THEN <<>>
        ELSE IF Len(baseline) = 0 THEN <<>>
        ELSE AnomalyRecords(row.klyuch_klienta, np_mean(oborots), baseline[1])

\* The loop of df.iterrows(), in row order.
identify_anomalies(df, baseline_df) ==
    Flatten([i \in 1..Len(df.rows) |->
                RowAnomalies(df.rows[i], oboroty_cols(df), baseline_df)])

(***************************************************************************)
(* preprocessing.segment_clients_hierarchical                              *)
(***************************************************************************)
\* The configured maximum number of cohorts.  main passes 8 (line 271); the
\* model runs the pipeline with a smaller maximum, so that extracts of two
\* or three clients reach a table with at least, and with fewer than,
\* max_cohorts rows.
max_cohorts == 2

\* A clustering that settles for as many clusters as there are samples.
fit_predict_lenient(n, n_clusters) ==
    LET k == IF n < n_clusters THEN n ELSE n_clusters
    IN  {l \in [1..n -> 0..(k - 1)] : \A c \in 0..(k - 1) : \E i \in 1..n : l[i] = c}

\* AgglomerativeClustering(n_clusters, linkage='ward').fit_predict(X) on n
\* samples (lines 189-193), by its contract: a ValueError (here: no label
\* vector) for fewer than 2 samples or fewer samples than clusters; else one
\* label in 0..n_clusters-1 per sample, every label used.  Which of those
\* vectors the Ward tree yields depends on the scaled features; the model
\* allows each of them.
fit_predict(n, n_clusters) ==
    IF n < 2 \/ n < n_clusters THEN {}
    ELSE {l \in [1..n -> 0..(n_clusters - 1)] :
            \A c \in 0..(n_clusters - 1) : \E i \in 1..n : l[i] = c}

\* Line 190 with one cluster too many.
n_clusters_off_by_one(max) == max + 1

\* Line 190: the n_clusters handed to the clustering.
n_clusters_arg(max) == max

\* Lines 167-186: the four features are defined in every row that dropna
\* kept, so fillna changes nothing and no row is removed after scaling.
\* Line 195: baseline_df['kogorta'] = labels.
assign_labels(baseline_df, labels) ==
    [i \in 1..Len(baseline_df) |-> baseline_df[i] @@ [kogorta |-> labels[i]]]

(***************************************************************************)
(* preprocessing.calculate_cohort_profiles                                 *)
(***************************************************************************)
\* DataFrame.round(2) of one value: the nearest multiple of 0.01, ties to even.
Round2(x) == Rat(Format0f(RMul(x, RInt(100))), 100)

RECURSIVE RSum(_)
RSum(s) == IF s = <<>> THEN RInt(0) ELSE RAdd(Head(s), RSum(Tail(s)))

RMean(s) == RDiv(RSum(s), RInt(Len(s)))

\* The median of a non-empty sequence of rationals.
RMedian(s) ==
    LET t == SortSeq(s, RLt)
        n == Len(s)
    IN  IF n % 2 = 1 THEN t[(n + 1) \div 2]
        ELSE RDiv(RAdd(t[n \div 2], t[n \div 2 + 1]), RInt(2))

Column(rows, f(_)) == [i \in 1..Len(rows) |-> f(rows[i])]

\* One row of groupby('kogorta').agg(...).round(2), lines 211-222.  The
\* sample standard deviation of the group's mean turnover (the column
\* volatilnost_oborota) is irrational in general and is not carried.
CohortProfile(id, members) ==
    [kogorta              |-> id,
     razmer_kogorty       |-> Len(members),
     sredniy_oborot       |-> Round2(RMean(Column(members, LAMBDA r : r.oborot_mean))),
     mediana_oborota      |-> Round2(RMedian(Column(members, LAMBDA r : r.oborot_mean))),
     sredniy_cv           |-> Round2(RMean(Column(members, LAMBDA r : r.cv))),
     srednyaya_koncentraciya |-> Round2(RMean(Column(members, LAMBDA r : r.koncentraciya))),
     srednie_tranzakcii   |-> Round2(RMean(Column(members, LAMBDA r : RInt(r.tranzakcii_kol)))),
     sredniy_vozrast      |-> Round2(RMean(Column(members, LAMBDA r : RInt(r.vozrast[1]))))]

\* The elements of a finite set of integers in ascending order.
RECURSIVE Ascending(_)
Ascending(S) ==
    IF S = {} THEN <<>>
    ELSE LET m == CHOOSE x \in S : \A y \in S : x <= y
         IN  <<m>> \o Ascending(S \ {m})

\* Lines 211-218 without the grouping: one row, for the lowest cohort id.
calculate_cohort_profiles_one_row(baseline_df) ==
    LET ids == Ascending({baseline_df[i].kogorta : i \in 1..Len(baseline_df)})
    IN  <<CohortProfile(ids[1], SelectSeq(baseline_df, LAMBDA r : r.kogorta = ids[1]))>>

\* groupby('kogorta'): one group per value of kogorta that occurs, in
\* ascending order of the value.
calculate_cohort_profiles(baseline_df) ==
    LET ids == Ascending({baseline_df[i].kogorta : i \in 1..Len(baseline_df)})
    IN  [j \in 1..Len(ids) |->
            CohortProfile(ids[j], SelectSeq(baseline_df, LAMBDA r : r.kogorta = ids[j]))]

(***************************************************************************)
(* preprocessing_timeseries: the parametric z-band strategy                *)
(***************************************************************************)
\* Line 74: z_score = stats.norm.ppf(0.95) = 1.6448536...; its square,
\* 2.7055434..., enters every comparison with a bound mean +/- z*std and is
\* carried as the rational ZSqNum / ZSqDen.
ZSqNum == 27055
ZSqDen == 10000

\* x^2 compared with z^2 * v, for rationals x and v >= 0.
SqLtZ(x, v) == RLt(RMul(RSq(x), RInt(ZSqDen)), RMul(v, RInt(ZSqNum)))
SqGtZ(x, v) == RLt(RMul(v, RInt(ZSqNum)), RMul(RSq(x), RInt(ZSqDen)))

\* A bound is the number m + s * z * sqrt(v), s in {-1, 0, 1}.
ZBound(m, s, v) == [m |-> m, s |-> IF v.n = 0 THEN 0 ELSE s, v |-> v]

\* x < b and x > b for a rational x and a bound b.
LtBound(x, b) ==
    CASE b.s = 0  -> RLt(x, b.m)
      [] b.s = 1  -> RLt(x, b.m) \/ SqLtZ(RSub(x, b.m), b.v)
      [] b.s = -1 -> RLt(x, b.m) /\ SqGtZ(RSub(x, b.m), b.v)
GtBound(x, b) ==
    CASE b.s = 0  -> RLt(b.m, x)
      [] b.s = 1  -> RLt(b.m, x) /\ SqGtZ(RSub(x, b.m), b.v)
      [] b.s = -1 -> RLt(b.m, x) \/ SqLtZ(RSub(x, b.m), b.v)

\* Line 84 left out.
clip_lower0_missing(b) == b

\* Series.clip(lower=0), line 84
clip_lower0(b) == IF GtBound(RInt(0), b) THEN ZBound(RInt(0), 0, RInt(0)) ELSE b

\* df[oboroty_cols].sum(axis=1) for one row, line 56
RowTotal(row, cols) == SumSeq(RowValues(row, cols))

\* Series.std() of pandas (ddof = 1) as a variance: undefined for one value.
pd_var(a) ==
    LET n == Len(a)
        S == SumSeq(a)
    IN  IF n < 2 THEN NaN ELSE <<Rat(n * SumSqSeq(a) - S * S, n * (n - 1))>>

\* Line 77 filling with 1 instead of 0.
fillna0_one(v) == IF v = NaN THEN RInt(1) ELSE v[1]

\* fillna(0), line 77
fillna0(v) == IF v = NaN THEN RInt(0) ELSE v[1]

\* groupby(...).agg('first'): the first defined value of the group, if any
FirstDefined(s) ==
    LET d == SelectSeq(s, LAMBDA x : x # NaN)
    IN  IF d = <<>> THEN NaN ELSE d[1]

\* a / b in floating point (line 88): a division by 0 raises nothing, it
\* yields inf (written 1/0) or, for 0 / 0, the undefined value (written 0/0).
float_div(a, b) ==
    IF b.n = 0 THEN [n |-> IF a.n = 0 THEN 0 ELSE 1, d |-> 0] ELSE RDiv(a, b)

\* Lines 59-88 for one client: the row of client_stats.
ClientStatsRow(client_id, client_data) ==
    LET totals == [i \in 1..Len(client_data) |-> client_data[i].obshchiy_oborot]
        mean == np_mean(totals)
        var == fillna0(pd_var(totals))
        sorted == np_sort(totals)
    IN  [klyuch_klienta |-> client_id,
         oborot_mean    |-> mean,
         oborot_std     |-> [sqrt |-> var],
         oborot_min     |-> sorted[1],
         oborot_max     |-> sorted[Len(sorted)],
         periodov       |-> Len(totals),
         vozrast        |-> FirstDefined([i \in 1..Len(client_data) |-> client_data[i].vozrast]),
         ci_lower       |-> clip_lower0(ZBound(mean, -1, var)),
         ci_upper       |-> ZBound(mean, 1, var),
         cv             |-> [sqrt |-> float_div(var, RSq(RAdd(mean, RInt(1))))]]

\* Line 56: the column obshchiy_oborot is added to the caller's frame.
with_total(df) ==
    [df EXCEPT !.rows = [i \in 1..Len(df.rows) |->
                            df.rows[i] @@ [obshchiy_oborot |-> RowTotal(df.rows[i], oboroty_cols(df))]],
               !.derived = df.derived \cup {"obshchiy_oborot"}]

\* Lines 59-95 on the frame that carries obshchiy_oborot: one row per client
\* key, in ascending key order (groupby sorts its keys).
calculate_client_statistics(df) ==
    LET ids == Ascending({df.rows[i].klyuch_klienta : i \in 1..Len(df.rows)})
    IN  [j \in 1..Len(ids) |-> ClientStatsRow(ids[j], ClientData(df, ids[j]))]

\* Lines 126-129
ZIsAnomaly(total, ci_lower, ci_upper) ==
    IF LtBound(RInt(total), ci_lower) \/ GtBound(RInt(total), ci_upper) THEN 1 ELSE 0

\* Lines 110-117: three more columns are added to the caller's frame.
with_cashback(df) ==
    [df EXCEPT !.derived = df.derived
                   \cup {"obshchiy_keshbek", "aktivirovannye_kategorii", "koef_aktivacii"}]

\* Lines 120-135: the inner merge with client_stats on the key keeps the
\* rows of df in order; each gets its client's band, mean and cv, the flag
\* and the signed deviation.
MergedRow(row, st) ==
    row @@ [ci_lower      |-> st.ci_lower,
            ci_upper      |-> st.ci_upper,
            oborot_mean   |-> st.oborot_mean,
            cv            |-> st.cv,
            is_anomaly    |-> ZIsAnomaly(row.obshchiy_oborot, st.ci_lower, st.ci_upper),
            deviation_pct |-> DeviationPct(RInt(row.obshchiy_oborot), st.oborot_mean)]

calculate_anomaly_metrics(df, client_stats) ==
    Flatten([i \in 1..Len(df.rows) |->
        LET st == BaselineOf(client_stats, df.rows[i].klyuch_klienta)
        IN  IF st = <<>> THEN <<>> ELSE <<MergedRow(df.rows[i], st[1])>>])

\* Line 186: the rows saved as anomalies.csv
ts_anomalies(df_with_anomalies) == SelectSeq(df_with_anomalies, LAMBDA r : r.is_anomaly = 1)

(***************************************************************************)
(* The state: the extract on disk (T_cashback_dataset.xlsx), the output    *)
(* directory ./data, and one run of main at a time with its local tables.  *)
(***************************************************************************)
VARIABLES
    extract,          \* the input file
    disk,             \* ./data: file name -> <<>> (absent) or <<[run, data, header]>>
    run,              \* number of runs started so far
    strategy,         \* which main is running: "percentile" or "zband"
    pc,               \* where the run is
    result,           \* what main returned: "none", "True", "False"
    df,               \* the frame load_data returned
    baseline_df,      \* baseline_df (percentile) / client_stats (zband)
    anomalies_df,     \* anomalies_df (percentile) / df_with_anomalies (zband)
    cohort_profiles,  \* cohort_profiles (percentile)
    dashboard         \* what the dashboard's load_all_data last came to

vars == <<extract, disk, run, strategy, pc, result, df, baseline_df, anomalies_df,
          cohort_profiles, dashboard>>

Strategies == {"percentile", "zband"}

Files == {"client_baseline.csv", "anomalies.csv", "cohort_profiles.csv",
          "client_statistics.csv", "data_with_anomalies.csv"}

NoFrame == [key |-> FALSE, cols |-> {}, rows |-> <<>>, derived |-> {}]

\* The rows a frame with the turnover columns cols can hold.  The age cell
\* may be undefined in the rows of the clients of Ageless only.
Ageless == {3}
KeyedRows(cols) ==
    {r \in [klyuch_klienta : Clients, vozrast : Ages, ob : [cols -> Amounts]] :
        r.vozrast = NaN => r.klyuch_klienta \in Ageless}
UnkeyedRows(cols) == [vozrast : Ages, ob : [cols -> Amounts]]

\* One client's rows, the age defined.
HistoryRows(cols) == [klyuch_klienta : {1}, vozrast : Ages \ {NaN}, ob : [cols -> Amounts]]

Frame(key, cols, rows) == [key |-> key, cols |-> cols, rows |-> rows, derived |-> {}]

\* The extract is a frame of up to n rows drawn from Rows.
ExtractOf(key, cols, Rows, n) ==
    \E k \in 0..n : \E rows \in [1..k -> Rows] : extract = Frame(key, cols, rows)

\* Extracts of several clients over one turnover column or none, with or
\* without the client key column.
Extracts ==
    \E cols \in {{}, {"oborot_a"}} :
        \/ ExtractOf(TRUE, cols, KeyedRows(cols), MaxRows)
        \/ ExtractOf(FALSE, cols, UnkeyedRows(cols), MaxRows)

\* Extracts of one client: up to MaxHist periods over one turnover column,
\* or up to MaxWide periods over both.
Histories ==
    \/ ExtractOf(TRUE, {"oborot_a"}, HistoryRows({"oborot_a"}), MaxHist)
    \/ ExtractOf(TRUE, Cats, HistoryRows(Cats), MaxWide)

Blank ==
    /\ disk = [f \in Files |-> <<>>]
    /\ run = 0
    /\ strategy = "percentile"
    /\ pc = "idle"
    /\ result = "none"
    /\ df = NoFrame
    /\ baseline_df = <<>>
    /\ anomalies_df = <<>>
    /\ cohort_profiles = <<>>
    /\ dashboard = [status |-> "closed", tables |-> <<>>]

Init == Extracts /\ Blank
InitHist == Histories /\ Blank

\* main's except clause: the traceback is printed and False is returned.
ReturnFalse ==
    /\ pc' = "returned"
    /\ result' = "False"

Begin(s) ==
    /\ run' = run + 1
    /\ strategy' = s
    /\ pc' = "start"
    /\ result' = "none"
    /\ df' = NoFrame
    /\ baseline_df' = <<>>
    /\ anomalies_df' = <<>>
    /\ cohort_profiles' = <<>>
    /\ UNCHANGED <<extract, dashboard, disk>>

\* A run of either script.
StartRun(s) ==
    /\ pc = "idle"
    /\ Begin(s)

\* A later run of either script, after the previous one has returned, over
\* the same extract and the same output directory.
Rerun(s) ==
    /\ pc = "returned"
    /\ run < MaxRuns
    /\ Begin(s)

\* load_data.  preprocessing.load_data reads df['klyuch_klienta'] (line 19).
LoadData ==
    /\ pc = "start"
    /\ IF strategy = "percentile" /\ ~extract.key
       THEN ReturnFalse /\ UNCHANGED df
       ELSE df' = extract /\ pc' = "loaded" /\ UNCHANGED result
    /\ UNCHANGED <<extract, dashboard, disk, run, strategy, baseline_df, anomalies_df, cohort_profiles>>

(***************************************************************************)
(* preprocessing.main, lines 260-283                                       *)
(***************************************************************************)
CalcBaseline ==
    /\ pc = "loaded" /\ strategy = "percentile"
    /\ LET r == calculate_client_baseline(df)
       IN  IF r.exc # "none" \/ Len(r.val) = 0
           THEN ReturnFalse /\ UNCHANGED baseline_df
           ELSE baseline_df' = r.val /\ pc' = "baseline" /\ UNCHANGED result
    /\ UNCHANGED <<extract, dashboard, disk, run, strategy, df, anomalies_df, cohort_profiles>>

IdentifyAnomalies ==
    /\ pc = "baseline" /\ strategy = "percentile"
    /\ anomalies_df' = identify_anomalies(df, baseline_df)
    /\ pc' = "anomalies"
    /\ UNCHANGED <<extract, dashboard, disk, run, strategy, result, df, baseline_df, cohort_profiles>>

Segment ==
    /\ pc = "anomalies" /\ strategy = "percentile"
    /\ LET labelings == fit_predict(Len(baseline_df), n_clusters_arg(max_cohorts))
       IN  IF labelings = {}
           THEN ReturnFalse /\ UNCHANGED baseline_df
           ELSE \E labels \in labelings :
                   /\ baseline_df' = assign_labels(baseline_df, labels)
                   /\ pc' = "segmented"
                   /\ UNCHANGED result
    /\ UNCHANGED <<extract, dashboard, disk, run, strategy, df, anomalies_df, cohort_profiles>>

CohortProfiles ==
    /\ pc = "segmented" /\ strategy = "percentile"
    /\ cohort_profiles' = calculate_cohort_profiles(baseline_df)
    /\ pc' = "profiled"
    /\ UNCHANGED <<extract, dashboard, disk, run, strategy, result, df, baseline_df, anomalies_df>>

\* A frame built from a list of row dicts (preprocessing.py lines 97, 150)
\* has columns only if the list is not empty; the frames of the z-band
\* script are cut from the extract and always have columns.
has_columns(table) == strategy = "zband" \/ table # <<>>

\* to_csv that leaves a file that exists as it is.
to_csv_keep_existing(name, table) ==
    IF disk[name] # <<>> THEN disk
    ELSE [disk EXCEPT ![name] =
            <<[run |-> run, data |-> table, header |-> has_columns(table)]>>]

\* DataFrame.to_csv: the file is created or replaced; the header line is
\* written if the frame has columns.
to_csv(name, table) ==
    [disk EXCEPT ![name] =
        <<[run |-> run, data |-> table, header |-> has_columns(table)]>>]

Locals == <<df, baseline_df, anomalies_df, cohort_profiles>>

\* The first write moved up in main, before the segmentation.
SaveBaseline_early ==
    /\ pc = "anomalies" /\ strategy = "percentile"
    /\ disk' = to_csv("client_baseline.csv", baseline_df)
    /\ pc' = "saved_baseline"
    /\ UNCHANGED <<extract, dashboard, run, strategy, result, Locals>>

\* save_results, lines 241-248: three writes, one after the other.
SaveBaseline ==
    /\ pc = "profiled" /\ strategy = "percentile"
    /\ disk' = to_csv("client_baseline.csv", baseline_df)
    /\ pc' = "saved_baseline"
    /\ UNCHANGED <<extract, dashboard, run, strategy, result, Locals>>

SaveAnomalies ==
    /\ pc = "saved_baseline" /\ strategy = "percentile"
    /\ disk' = to_csv("anomalies.csv", anomalies_df)
    /\ pc' = "saved_anomalies"
    /\ UNCHANGED <<extract, dashboard, run, strategy, result, Locals>>

\* The third write; main then returns True (line 283).
SaveProfiles ==
    /\ pc = "saved_anomalies" /\ strategy = "percentile"
    /\ disk' = to_csv("cohort_profiles.csv", cohort_profiles)
    /\ pc' = "returned"
    /\ result' = "True"
    /\ UNCHANGED <<extract, dashboard, run, strategy, Locals>>

(***************************************************************************)
(* preprocessing_timeseries.main, lines 196-219                            *)
(***************************************************************************)
\* validate_data reads df['klyuch_klienta'] (line 33).
ValidateData ==
    /\ pc = "loaded" /\ strategy = "zband"
    /\ IF ~df.key THEN ReturnFalse ELSE pc' = "validated" /\ UNCHANGED result
    /\ UNCHANGED <<extract, dashboard, disk, run, strategy, Locals>>

ClientStatistics ==
    /\ pc = "validated" /\ strategy = "zband"
    /\ df' = with_total(df)
    /\ baseline_df' = calculate_client_statistics(df')
    /\ pc' = "baseline"
    /\ UNCHANGED <<extract, dashboard, disk, run, strategy, result, anomalies_df, cohort_profiles>>

\* calculate_anomaly_metrics divides by len(df_with_ci) (line 138): a frame
\* without rows raises ZeroDivisionError.  generate_report only prints.
AnomalyMetrics ==
    /\ pc = "baseline" /\ strategy = "zband"
    /\ df' = with_cashback(df)
    /\ LET df_with_ci == calculate_anomaly_metrics(df', baseline_df)
       IN  IF Len(df_with_ci) = 0
           THEN ReturnFalse /\ UNCHANGED anomalies_df
           ELSE anomalies_df' = df_with_ci /\ pc' = "reported" /\ UNCHANGED result
    /\ UNCHANGED <<extract, dashboard, disk, run, strategy, baseline_df, cohort_profiles>>

\* save_results, lines 178-188
SaveStatistics ==
    /\ pc = "reported" /\ strategy = "zband"
    /\ disk' = to_csv("client_statistics.csv", baseline_df)
    /\ pc' = "saved_statistics"
    /\ UNCHANGED <<extract, dashboard, run, strategy, result, Locals>>

SaveData ==
    /\ pc = "saved_statistics" /\ strategy = "zband"
    /\ disk' = to_csv("data_with_anomalies.csv", anomalies_df)
    /\ pc' = "saved_data"
    /\ UNCHANGED <<extract, dashboard, run, strategy, result, Locals>>

SaveTsAnomalies ==
    /\ pc = "saved_data" /\ strategy = "zband"
    /\ disk' = to_csv("anomalies.csv", ts_anomalies(anomalies_df))
    /\ pc' = "returned"
    /\ result' = "True"
    /\ UNCHANGED <<extract, dashboard, run, strategy, Locals>>

\* os.makedirs or a to_csv of save_results raises (the disk is full, the
\* directory or a file is not writable): the writes done so far stay, the
\* exception reaches main's except clause.
SavingPcs == {"profiled", "saved_baseline", "saved_anomalies",
              "reported", "saved_statistics", "saved_data"}

SaveFails ==
    /\ pc \in SavingPcs
    /\ ReturnFalse
    /\ UNCHANGED <<extract, dashboard, disk, run, strategy, Locals>>

(***************************************************************************)
(* app/main.py, lines 32-47: the dashboard                                 *)
(***************************************************************************)
\* pd.read_csv: a file that is absent raises FileNotFoundError, a file
\* without a header line raises EmptyDataError.
read_csv(d, f) ==
    IF d[f] = <<>> THEN [exc |-> "FileNotFoundError", val |-> <<>>]
    ELSE IF ~d[f][1].header THEN [exc |-> "EmptyDataError", val |-> <<>>]
    ELSE [exc |-> "none", val |-> d[f][1].data]

\* The order in which load_all_data reads the tables (lines 36-38).
LoadOrder == <<"client_baseline.csv", "anomalies.csv", "cohort_profiles.csv">>

\* A loader that puts an empty table in the place of a file it cannot read.
load_all_data_defaults(d) ==
    [status |-> "loaded",
     tables |-> [i \in 1..3 |-> read_csv(d, LoadOrder[i]).val]]

\* load_all_data: the first read that raises ends the try block.
\* FileNotFoundError is caught: st.error, then st.stop() ends the script.
\* Any other exception leaves the function: Streamlit shows it and the
\* script ends.  Otherwise the three tables are returned.
load_all_data(d) ==
    LET failed == {i \in 1..3 : read_csv(d, LoadOrder[i]).exc # "none"}
    IN  IF failed = {}
        THEN [status |-> "loaded",
              tables |-> [i \in 1..3 |-> read_csv(d, LoadOrder[i]).val]]
        ELSE LET first == CHOOSE i \in failed : \A j \in failed : i <= j
                 exc == read_csv(d, LoadOrder[first]).exc
             IN  [status |-> IF exc = "FileNotFoundError" THEN "stopped" ELSE exc,
                  tables |-> <<>>]

\* The dashboard script is run against the output directory as it is now
\* (line 47); it only reads.
LoadDashboard ==
    /\ dashboard' = load_all_data(disk)
    /\ dashboard' # dashboard
    /\ UNCHANGED <<extract, disk, run, strategy, pc, result, Locals>>

Stages ==
    \/ LoadData
    \/ CalcBaseline
    \/ IdentifyAnomalies
    \/ Segment
    \/ CohortProfiles
    \/ SaveBaseline
    \/ SaveAnomalies
    \/ SaveProfiles
    \/ ValidateData
    \/ ClientStatistics
    \/ AnomalyMetrics
    \/ SaveStatistics
    \/ SaveData
    \/ SaveTsAnomalies
    \/ SaveFails

\* One run of either script over an extract of several clients.
Next == (\E s \in Strategies : StartRun(s)) \/ Stages
Spec == Init /\ [][Next]_vars

\* The statistics and anomaly stages of either script over one client's
\* longer history.
NextHist ==
    \/ \E s \in Strategies : StartRun(s)
    \/ LoadData
    \/ CalcBaseline
    \/ IdentifyAnomalies
    \/ ValidateData
    \/ ClientStatistics
    \/ AnomalyMetrics
SpecHist == InitHist /\ [][NextHist]_vars

\* Extracts of one client over one turnover column whose monthly amounts
\* are 100 or 1000, up to MaxScenario periods.
ScenarioAmounts == {100, 1000}
ScenarioRows ==
    [klyuch_klienta : {1}, vozrast : Ages \ {NaN}, ob : [{"oborot_a"} -> ScenarioAmounts]]
Scenarios == ExtractOf(TRUE, {"oborot_a"}, ScenarioRows, MaxScenario)
InitScenario == Scenarios /\ Blank

\* The baseline and anomaly stages of preprocessing.main over such a history.
NextScenario ==
    \/ StartRun("percentile")
    \/ LoadData
    \/ CalcBaseline
    \/ IdentifyAnomalies
SpecScenario == InitScenario /\ [][NextScenario]_vars

\* Extracts of one client over one turnover column whose amounts may be
\* negative (a refund, a reversal), up to MaxSigned periods.  Neither script
\* rejects such a cell.
SignedAmounts == {-1, 0, 1}
SignedRows ==
    [klyuch_klienta : {1}, vozrast : Ages \ {NaN}, ob : [{"oborot_a"} -> SignedAmounts]]
InitSigned == ExtractOf(TRUE, {"oborot_a"}, SignedRows, MaxSigned) /\ Blank

\* The statistics stage of either script over such a history.
NextSigned ==
    \/ \E s \in Strategies : StartRun(s)
    \/ LoadData
    \/ CalcBaseline
    \/ ValidateData
    \/ ClientStatistics
SpecSigned == InitSigned /\ [][NextSigned]_vars

\* Extracts with the key column and one turnover column, of up to MaxIoRows
\* rows with the amounts 0 and 1 and the age defined.
IoRows == [klyuch_klienta : Clients, vozrast : Ages \ {NaN}, ob : [{"oborot_a"} -> {0, 1}]]
InitIO == ExtractOf(TRUE, {"oborot_a"}, IoRows, MaxIoRows) /\ Blank

\* Up to MaxRuns runs of either script, one after the other, against the
\* same output directory, and the dashboard started at any moment.
NextIO ==
    \/ \E s \in Strategies : StartRun(s)
    \/ \E s \in Strategies : Rerun(s)
    \/ Stages
    \/ LoadDashboard
SpecIO == InitIO /\ [][NextIO]_vars

(***************************************************************************)
(* Properties.                                                             *)
(***************************************************************************)
OutputTables == {"client_baseline.csv", "anomalies.csv", "cohort_profiles.csv"}

\* File f exists and the current run wrote it.
WrittenByRun(f) == disk[f] # <<>> /\ disk[f][1].run = run

\* The rows of the percentile strategy's baseline table, once computed.
PercentileRows == IF strategy = "percentile" THEN baseline_df ELSE <<>>

\* The positive turnover amounts of client c in the extract.
ClientObs(c) == Positive(CellValues(ClientData(extract, c), oboroty_cols(extract)))

\* C1: a run of preprocessing.main is all-or-nothing: when it has returned
\* True it has written all three tables, and when it has returned False it
\* has written none of them, wherever the failure occurred.
C1_AllOrNothing ==
    (pc = "returned" /\ strategy = "percentile") =>
        IF result = "True"
        THEN \A f \in OutputTables : WrittenByRun(f)
        ELSE \A f \in OutputTables : ~WrittenByRun(f)

HasCohort ==
    /\ strategy = "percentile"
    /\ baseline_df # <<>>
    /\ "kogorta" \in DOMAIN baseline_df[1]
CohortIds == {baseline_df[i].kogorta : i \in DOMAIN baseline_df}

\* C3: for a baseline table of at least max_cohorts clients, every assigned
\* cohort id is in 0..max_cohorts-1, at most max_cohorts distinct ids occur
\* and the cohort-profiles table has at most max_cohorts rows.
C3_CohortBound ==
    (HasCohort /\ Len(baseline_df) >= max_cohorts) =>
        /\ \A i \in DOMAIN baseline_df : baseline_df[i].kogorta \in 0..(max_cohorts - 1)
        /\ Cardinality(CohortIds) <= max_cohorts
        /\ Len(cohort_profiles) <= max_cohorts
        /\ \A j \in DOMAIN cohort_profiles : cohort_profiles[j].kogorta \in CohortIds

\* C3 witness: profiles computed for a table of more clients than max_cohorts.
C3_Witness ==
    /\ pc = "profiled"
    /\ Len(baseline_df) > max_cohorts
    /\ Len(cohort_profiles) = max_cohorts

\* The anomaly records of the running strategy: anomalies_df, or the rows
\* of df_with_anomalies that are saved as anomalies.csv.
Records == IF strategy = "zband" THEN ts_anomalies(anomalies_df) ELSE anomalies_df

\* The clients of the extract all of whose turnover amounts are <= 0.
NonPositiveClients ==
    IF extract.key /\ extract.cols # {}
    THEN {c \in Clients : /\ ClientData(extract, c) # <<>>
                          /\ ClientObs(c) = <<>>}
    ELSE {}

\* C5: under either strategy a client whose turnover amounts are all
\* non-positive has no row in the baseline table and no anomaly record.
C5_NonPositiveExcluded ==
    \A c \in NonPositiveClients :
        /\ \A i \in DOMAIN baseline_df : baseline_df[i].klyuch_klienta # c
        /\ \A k \in DOMAIN Records : Records[k].klyuch_klienta # c

\* C6: every anomaly record refers to a client that has a row in the
\* baseline table.
C6_RecordsHaveBaseline ==
    \A k \in DOMAIN Records :
        \E i \in DOMAIN baseline_df :
            baseline_df[i].klyuch_klienta = Records[k].klyuch_klienta

\* C6 witness: anomalies were recorded while a row with a positive amount
\* belongs to a client without a baseline row.
C6_Witness ==
    /\ strategy = "percentile" /\ pc = "anomalies"
    /\ anomalies_df # <<>>
    /\ \E i \in DOMAIN df.rows :
          /\ Positive(RowValues(df.rows[i], oboroty_cols(df))) # <<>>
          /\ BaselineOf(baseline_df, df.rows[i].klyuch_klienta) = <<>>

\* The percentile strategy's anomalies_df is computed and main has not returned.
AnomaliesComputed ==
    /\ strategy = "percentile"
    /\ pc \in {"anomalies", "segmented", "profiled", "saved_baseline", "saved_anomalies"}

\* The observation of row i (the mean of its positive amounts), whether it
\* has one and a baseline row to compare with, and that row.
RowObs(i) == np_mean(Positive(RowValues(df.rows[i], oboroty_cols(df))))
HasObs(i) ==
    /\ Positive(RowValues(df.rows[i], oboroty_cols(df))) # <<>>
    /\ BaselineOf(baseline_df, df.rows[i].klyuch_klienta) # <<>>
RowBand(i) == BaselineOf(baseline_df, df.rows[i].klyuch_klienta)[1]
AboveBand(i) == RLt(RowBand(i).ci_upper, RowObs(i))
BelowBand(i) == RLt(RowObs(i), RowBand(i).ci_lower)
OutsideRows == {i \in DOMAIN df.rows : HasObs(i) /\ (AboveBand(i) \/ BelowBand(i))}

\* C7: under the percentile strategy the records are, in row order, exactly
\* the observations strictly outside [ci_lower, ci_upper] of their client's
\* baseline row; the type is 'vysokie rashody' exactly above ci_upper and
\* 'nizkie rashody' exactly below ci_lower.
C7_FlagIffOutside ==
    AnomaliesComputed =>
        /\ Len(anomalies_df) = Cardinality(OutsideRows)
        /\ \A k \in DOMAIN anomalies_df :
              LET i == Ascending(OutsideRows)[k]
                  r == anomalies_df[k]
              IN  /\ r.klyuch_klienta = df.rows[i].klyuch_klienta
                  /\ r.tekushchiy_oborot = RowObs(i)
                  /\ r.tip \in {"vysokie rashody", "nizkie rashody"}
                  /\ r.tip = "vysokie rashody" <=> AboveBand(i)
                  /\ r.tip = "nizkie rashody" <=> BelowBand(i)

\* C7 witness: one observation is flagged and another, equal to a bound of
\* its band, is not.
C7_Witness ==
    /\ AnomaliesComputed
    /\ anomalies_df # <<>>
    /\ \E i \in DOMAIN df.rows :
          /\ HasObs(i)
          /\ i \notin OutsideRows
          /\ RowObs(i) \in {RowBand(i).ci_lower, RowBand(i).ci_upper}
          /\ RowBand(i).ci_lower # RowBand(i).ci_upper

\* s = (observed - mean) / (mean + 1) * 100, cross-multiplied.
IsDeviationOf(s, observed, mean) ==
    RMul(s, RAdd(mean, RInt(1))) = RMul(RSub(observed, mean), RInt(100))

\* The stored deviation, the observation and the baseline mean of record r.
RecDeviation(r) == IF strategy = "zband" THEN r.deviation_pct ELSE r.otklonenie_pct
RecObserved(r) == IF strategy = "zband" THEN RInt(r.obshchiy_oborot) ELSE r.tekushchiy_oborot
RecMean(r) == IF strategy = "zband" THEN r.oborot_mean
              ELSE BaselineOf(baseline_df, r.klyuch_klienta)[1].oborot_mean

C9_PriorityTier ==
    \A k \in DOMAIN Records :
        LET r == Records[k]
        IN  /\ "prioritet" \in DOMAIN r
            /\ r.prioritet \in {"vysokiy", "sredniy"}
            /\ r.prioritet = "vysokiy" <=> RLt(RInt(30), RAbs(RecDeviation(r)))

\* The per-period totals of client c in the extract.
ClientTotals(c) ==
    LET rows == ClientData(extract, c)
    IN  [i \in 1..Len(rows) |-> RowTotal(rows[i], oboroty_cols(extract))]

\* |n*x - S| > 1.645 * std * n for the totals t of a client (n values, sum S,
\* sample variance V / (n*(n-1)) with V = n*sum(t^2) - S^2), in integers:
\* (n*x - S)^2 * (n-1) > 1.645^2 * V * n, and 1.645^2 = 108241 / 40000.
FartherThanZStd(x, t) ==
    LET n == Len(t)
        S == SumSeq(t)
        V == n * SumSqSeq(t) - S * S
    IN  (n * x - S) * (n * x - S) * (n - 1) * 40000 > 108241 * V * n

\* C10: under the z-band strategy the lower bound of every client's band is
\* never negative, and a row is flagged exactly when its total lies strictly
\* outside [max(0, mean - 1.645*std), mean + 1.645*std] of its client's
\* per-period totals.
C10_ZBand ==
    (strategy = "zband") =>
        /\ \A i \in DOMAIN baseline_df : ~GtBound(RInt(0), baseline_df[i].ci_lower)
        /\ \A k \in DOMAIN anomalies_df :
              LET r == anomalies_df[k]
                  x == r.obshchiy_oborot
                  t == ClientTotals(r.klyuch_klienta)
                  above == Len(t) * x > SumSeq(t) /\ FartherThanZStd(x, t)
                  below == x < 0 \/ (Len(t) * x < SumSeq(t) /\ FartherThanZStd(x, t))
              IN  r.is_anomaly = (IF above \/ below THEN 1 ELSE 0)

\* C10 witness: a flagged row of a client whose lower bound was clipped to 0.
C10_Witness ==
    /\ strategy = "zband" /\ pc = "reported"
    /\ \E k \in DOMAIN anomalies_df :
          /\ anomalies_df[k].is_anomaly = 1
          /\ anomalies_df[k].ci_lower = ZBound(RInt(0), 0, RInt(0))
          /\ anomalies_df[k].cv.sqrt.n > 0

\* The bound b is the number x.
BoundIs(b, x) == ~LtBound(x, b) /\ ~GtBound(x, b)

\* The clients of the extract with exactly one row.
SinglePeriodClients ==
    IF extract.key THEN {c \in Clients : Len(ClientData(extract, c)) = 1} ELSE {}

\* The only per-period total of a client of SinglePeriodClients.
OnlyTotal(c) == RInt(ClientTotals(c)[1])

IsScenario == np_sort(ClientObs(1)) = <<100, 100, 100, 100, 100, 1000>>

\* C12: for the monthly values 100, 100, 100, 100, 100, 1000 (in any order)
\* the baseline has mean 250 and median 100, and the only anomaly record is
\* the one of the observation 1000, of type 'vysokie rashody' and priority
\* 'vysokiy'.
C12_Scenario ==
    (strategy = "percentile" /\ IsScenario) =>
        /\ pc \in {"baseline", "anomalies"} =>
              /\ Len(baseline_df) = 1
              /\ baseline_df[1].oborot_mean = RInt(250)
              /\ np_median(ClientObs(1)) = RInt(100)
        /\ pc = "anomalies" =>
              /\ Len(anomalies_df) = 1
              /\ anomalies_df[1].tekushchiy_oborot = RInt(1000)
              /\ anomalies_df[1].tip = "vysokie rashody"
              /\ anomalies_df[1].prioritet = "vysokiy"

\* C12 witness: the anomalies of that history have been computed.
C12_Witness ==
    /\ IsScenario
    /\ strategy = "percentile" /\ pc = "anomalies"
    /\ anomalies_df # <<>>

\* C13: every baseline row has a concentration in [0, 1].
C13_ConcentrationRange ==
    \A i \in DOMAIN PercentileRows :
        /\ RLe(RInt(0), PercentileRows[i].koncentraciya)
        /\ RLe(PercentileRows[i].koncentraciya, RInt(1))

\* C13 witness: a baseline row whose concentration is below 1.
C13_Witness ==
    /\ strategy = "percentile" /\ pc = "baseline"
    /\ \E i \in DOMAIN baseline_df : RLt(baseline_df[i].koncentraciya, RInt(1))

\* The spend of the client whose rows are given in the category col.
CategoryTotal(rows, col) == SumSeq(Positive([i \in 1..Len(rows) |-> rows[i].ob[col]]))

\* The per-category spend totals of client c, in column order.
CategoryTotals(c) ==
    LET cols == oboroty_cols(extract)
    IN  [j \in 1..Len(cols) |-> CategoryTotal(ClientData(extract, c), cols[j])]

\* C14: the concentration of every baseline row is the sum of the client's
\* three largest per-category spend totals over the client's total spend,
\* and is 1 when the client has spend in at most three categories.
C14_TopCategories ==
    \A i \in DOMAIN PercentileRows :
        LET b == PercentileRows[i]
            totals == CategoryTotals(b.klyuch_klienta)
        IN  /\ b.koncentraciya = Rat(SumSeq(LastK(np_sort(totals), 3)), SumSeq(totals))
            /\ Len(Positive(totals)) <= 3 => b.koncentraciya = RInt(1)

\* C15: every baseline row has a dispersion ratio cv >= 0.
C15_CvNonNegative ==
    \A i \in DOMAIN PercentileRows : RLe(RInt(0), PercentileRows[i].cv)

\* C15 witness: a baseline row whose cv is positive.
C15_Witness ==
    /\ strategy = "percentile" /\ pc = "baseline"
    /\ \E i \in DOMAIN baseline_df : RLt(RInt(0), baseline_df[i].cv)

\* The positive amounts o are all the same.
AllEqual(o) == \A j \in DOMAIN o : o[j] = o[1]

\* C16: when all of a client's positive amounts are equal (a single one
\* included), its cv is 0 and ci_lower and ci_upper both equal that amount.
C16_EqualObservations ==
    \A i \in DOMAIN PercentileRows :
        LET b == PercentileRows[i]
            o == ClientObs(b.klyuch_klienta)
        IN  /\ Len(o) >= 1
            /\ AllEqual(o) =>
                   /\ b.cv = RInt(0)
                   /\ b.ci_lower = RInt(o[1])
                   /\ b.ci_upper = RInt(o[1])

\* C16 witness: baseline rows exist for a client with several equal positive
\* amounts beside a zero amount.
C16_Witness ==
    /\ strategy = "percentile" /\ pc = "baseline"
    /\ \E i \in DOMAIN baseline_df :
          LET o == ClientObs(baseline_df[i].klyuch_klienta)
          IN  /\ AllEqual(o)
              /\ Len(o) >= 2
              /\ Len(ClientData(extract, baseline_df[i].klyuch_klienta)) > Len(o)

\* Lower percentiles p of the band configurations (p, 100 - p), p <= 50;
\* the pair of lines 58-59 is (15, 85).
BandPcts == {0, 5, 15, 25, 35, 50}

\* Row i is flagged (line 136) against the band (p, 100 - p) of its
\* client's positive amounts (lines 58-59 with p in place of 15).
FlaggedWith(p, i) ==
    LET o == ClientObs(df.rows[i].klyuch_klienta)
    IN  /\ HasObs(i)
        /\ IsAnomaly(RowObs(i), np_percentile(o, p), np_percentile(o, 100 - p))

FlaggedRows(p) == {i \in DOMAIN df.rows : FlaggedWith(p, i)}

C18_ExtractUntouched ==
    (df # NoFrame) =>
        /\ df.derived = {}
        /\ df.cols = extract.cols
        /\ df.rows = extract.rows

\* Some output file exists in ./data.
SomeOutput == \E f \in Files : disk[f] # <<>>

\* C19: when the extract has no client key column, or no column with the
\* turnover prefix, the run (of either strategy) writes no output table and
\* returns a failure.
C19_SchemaAbort ==
    (~extract.key \/ extract.cols = {}) =>
        /\ ~SomeOutput
        /\ result # "True"

\* No row of the extract holds a positive turnover amount.
NoPositive ==
    \A i \in DOMAIN extract.rows : \A c \in extract.cols : extract.rows[i].ob[c] <= 0

\* C20: when no client of the extract has a positive turnover amount,
\* preprocessing.main returns a failure; no baseline, anomaly, segmentation or
\* profile result comes about and none of the three tables is written.
C20_EmptyBaselineAborts ==
    (strategy = "percentile" /\ NoPositive) =>
        /\ pc \in {"idle", "start", "loaded", "returned"}
        /\ pc = "returned" => result = "False"
        /\ baseline_df = <<>> /\ anomalies_df = <<>> /\ cohort_profiles = <<>>
        /\ \A f \in OutputTables : disk[f] = <<>>

\* C20 witness: the run over an extract with the key column, a turnover
\* column and rows, none of them positive, has returned.
C20_Witness ==
    /\ strategy = "percentile" /\ pc = "returned" /\ result = "False"
    /\ extract.key /\ extract.cols # {} /\ Len(extract.rows) >= 2
    /\ NoPositive

\* The cohort profiles of the run have been computed.
ProfilesComputed ==
    /\ strategy = "percentile"
    /\ pc \in {"profiled", "saved_baseline", "saved_anomalies"} \/ result = "True"

\* The rows of the segmented baseline table that carry the cohort id k.
Members(k) == {i \in DOMAIN baseline_df : baseline_df[i].kogorta = k}

\* C21: the cohort-profiles table has exactly one row for each cohort id
\* assigned to some client of the segmented baseline table and none for any
\* other id; each member count is the number of baseline rows with that id,
\* and the counts sum to the number of rows of the written baseline table.
C21_ProfilePerCohort ==
    ProfilesComputed =>
        /\ {cohort_profiles[j].kogorta : j \in DOMAIN cohort_profiles} = CohortIds
        /\ Len(cohort_profiles) = Cardinality(CohortIds)
        /\ \A j \in DOMAIN cohort_profiles :
              cohort_profiles[j].razmer_kogorty = Cardinality(Members(cohort_profiles[j].kogorta))
        /\ SumSeq([j \in DOMAIN cohort_profiles |-> cohort_profiles[j].razmer_kogorty])
              = Len(baseline_df)
        /\ disk["client_baseline.csv"] # <<>> =>
              Len(disk["client_baseline.csv"][1].data) = Len(baseline_df)

\* C21 witness: all three tables are written and the cohorts differ in size.
C21_Witness ==
    /\ strategy = "percentile" /\ result = "True"
    /\ \E j \in DOMAIN cohort_profiles : \E k \in DOMAIN cohort_profiles :
          cohort_profiles[j].razmer_kogorty > cohort_profiles[k].razmer_kogorty

\* The rational x is a defined number (neither NaN nor infinite).
Defined(x) == x.d > 0

\* C22: no baseline row contains an undefined numeric field: mean, cv,
\* concentration, band bounds and age are defined numbers, and the ratios
\* cv and concentration are 0 where their denominator is 0.
C22_NoUndefinedField ==
    \A i \in DOMAIN PercentileRows :
        LET b == PercentileRows[i]
            o == ClientObs(b.klyuch_klienta)
        IN  /\ b.vozrast # NaN
            /\ Defined(b.oborot_mean) /\ Defined(b.oborot_std.sqrt)
            /\ Defined(b.cv) /\ Defined(b.koncentraciya)
            /\ Defined(b.ci_lower) /\ Defined(b.ci_upper)
            /\ b.tranzakcii_kol \in Nat
            /\ np_median(o).n = 0 => b.cv = RInt(0)
            /\ SumSeq(o) = 0 => b.koncentraciya = RInt(0)

\* C22 witness: the baseline table has rows while a client with a positive
\* amount and an undefined age is in the extract.
C22_Witness ==
    /\ strategy = "percentile" /\ pc = "baseline"
    /\ baseline_df # <<>>
    /\ \E i \in DOMAIN extract.rows :
          /\ extract.rows[i].vozrast = NaN
          /\ ClientObs(extract.rows[i].klyuch_klienta) # <<>>
          /\ ClientData(extract, extract.rows[i].klyuch_klienta)[1].vozrast = NaN

\* The positions of a run of preprocessing.main, in the order of lines
\* 258-277.
StageOrder == <<"idle", "start", "loaded", "baseline", "anomalies", "segmented",
                "profiled", "saved_baseline", "saved_anomalies", "returned">>

\* A step of the percentile run goes to the next position or to the return.
InSequence ==
    (strategy' = "percentile" /\ pc' # pc) =>
        \/ pc' = "returned"
        \/ \E k \in 1..(Len(StageOrder) - 1) : StageOrder[k] = pc /\ StageOrder[k + 1] = pc'

\* Each table comes about in the step of its own stage and the files are
\* written after the step of the last stage.
OwnStage ==
    (strategy' = "percentile" /\ pc # "idle") =>
        /\ baseline_df' # baseline_df =>
              (pc = "loaded" /\ pc' = "baseline") \/ (pc = "anomalies" /\ pc' = "segmented")
        /\ anomalies_df' # anomalies_df => (pc = "baseline" /\ pc' = "anomalies")
        /\ cohort_profiles' # cohort_profiles => (pc = "segmented" /\ pc' = "profiled")
        /\ disk' # disk => pc \in {"profiled", "saved_baseline", "saved_anomalies"}

\* Every row of the written baseline table carries the cohort id.
WrittenWithCohort ==
    (strategy = "percentile" /\ disk["client_baseline.csv"] # <<>>) =>
        /\ disk["client_baseline.csv"][1].data # <<>>
        /\ \A i \in DOMAIN disk["client_baseline.csv"][1].data :
              "kogorta" \in DOMAIN disk["client_baseline.csv"][1].data[i]
        /\ cohort_profiles # <<>>

\* C23: the stages of a run execute strictly in sequence, no output table
\* is written before baseline, anomalies, segmentation and profiles are
\* complete, and the written baseline table carries the cohort id column.
C23_Sequential == [][InSequence /\ OwnStage]_vars /\ []WrittenWithCohort

\* C23 witness: the baseline table has been written, with its cohort ids.
C23_Witness ==
    /\ strategy = "percentile" /\ pc = "saved_baseline"
    /\ disk["client_baseline.csv"] # <<>>
    /\ disk["client_baseline.csv"][1].data = baseline_df
    /\ HasCohort

\* The table that a completed run of preprocessing.main wrote to file f.
TableFor(f) ==
    CASE f = "client_baseline.csv" -> baseline_df
      [] f = "anomalies.csv"       -> anomalies_df
      [] f = "cohort_profiles.csv" -> cohort_profiles

\* C24: after a run of preprocessing.main that returned True, each of the
\* three output tables on disk is the one this run produced, whatever
\* earlier runs left in the directory.
C24_RunReplacesOutput ==
    (strategy = "percentile" /\ pc = "returned" /\ result = "True") =>
        \A f \in OutputTables :
            /\ disk[f] # <<>>
            /\ disk[f][1].run = run
            /\ disk[f][1].data = TableFor(f)

\* C24 witness: a second run has returned True after a z-band run had
\* written its files, anomalies.csv among them.
C24_Witness ==
    /\ strategy = "percentile" /\ pc = "returned" /\ result = "True"
    /\ run = 2
    /\ disk["data_with_anomalies.csv"] # <<>>

\* Some output table is absent from the directory.
SomeTableAbsent == \E f \in OutputTables : disk[f] = <<>>

\* C25: whenever the dashboard's loader runs while one of the three output
\* tables is absent, it ends without returning tables: either it shows its
\* own error and stops, or an exception of the reader is shown; and a
\* dashboard that holds tables holds all three.
C25_LoaderStops ==
    [][(dashboard' # dashboard /\ SomeTableAbsent') =>
          /\ dashboard'.status \in {"stopped", "EmptyDataError"}
          /\ dashboard'.tables = <<>>]_vars

\* C25 witness: the loader has stopped with its error while the baseline
\* table was on disk and another table was not.
C25_Witness ==
    /\ dashboard.status = "stopped"
    /\ disk["client_baseline.csv"] # <<>>
    /\ SomeTableAbsent

\* C26: the baseline table that calculate_client_baseline returns holds
\* exactly one row for every client of the extract with at least one
\* positive turnover amount, whatever the client's other fields are.
C26_RowPerActiveClient ==
    (strategy = "percentile" /\ pc = "baseline") =>
        \A c \in Clients :
            ClientObs(c) # <<>> => Len(BaselineOf(baseline_df, c)) = 1

\* C27: after any sequence of runs of the two scripts against one output
\* directory, each run having completed or aborted, the three output tables,
\* whenever all of them exist, were written by one and the same run.
C27_OneRunWroteAll ==
    (pc = "returned" /\ ~SomeTableAbsent) =>
        \A f, g \in OutputTables : disk[f][1].run = disk[g][1].run

\* C28: when the baseline table has at least one but fewer than max_cohorts
\* clients, the segmentation fails: the run gets no further than the
\* segmentation, main returns False, no cohort is assigned, no profile is
\* computed and none of the three output tables is written.
C28_TooFewClients ==
    (strategy = "percentile" /\ baseline_df # <<>> /\ Len(baseline_df) < max_cohorts) =>
        /\ pc \in {"baseline", "anomalies", "returned"}
        /\ pc = "returned" => result = "False"
        /\ ~HasCohort
        /\ cohort_profiles = <<>>
        /\ \A f \in OutputTables : disk[f] = <<>>

\* C28 witness: main has returned after the segmentation of a table of
\* fewer than max_cohorts clients.
C28_Witness ==
    /\ strategy = "percentile" /\ pc = "returned" /\ result = "False"
    /\ baseline_df # <<>> /\ Len(baseline_df) < max_cohorts

\* The rows of df without a positive turnover amount.
ZeroSpendRows == {i \in DOMAIN df.rows : Positive(RowValues(df.rows[i], oboroty_cols(df))) = <<>>}

\* C29: under the percentile strategy a row whose turnover amounts are all
\* non-positive yields no record, even below a positive lower bound: every
\* record observes a positive value, and a client has at most as many
\* records as it has rows with a positive amount.
C29_ZeroSpendNotFlagged ==
    AnomaliesComputed =>
        /\ \A j \in DOMAIN anomalies_df : RLt(RInt(0), anomalies_df[j].tekushchiy_oborot)
        /\ \A c \in Clients :
              Len(SelectSeq(anomalies_df, LAMBDA a : a.klyuch_klienta = c))
                <= Cardinality({i \in DOMAIN df.rows \ ZeroSpendRows :
                                   df.rows[i].klyuch_klienta = c})

\* C29 witness: the anomalies have been computed over rows one of which has
\* no positive amount while its client's lower bound is greater than 0.
C29_Witness ==
    /\ AnomaliesComputed
    /\ \E i \in ZeroSpendRows :
          LET b == BaselineOf(baseline_df, df.rows[i].klyuch_klienta)
          IN  b # <<>> /\ RLt(RInt(0), b[1].ci_lower)

\* lo <= hi for a lower and an upper bound of one band (lines 80-84): the
\* lower bound is a number (clipped, or of zero variance), or the upper one
\* is, or the two lie at either side of a common mean.
BoundLe(lo, hi) ==
    CASE lo.s = 0 -> ~GtBound(lo.m, hi)
      [] lo.s # 0 /\ hi.s = 0 -> ~LtBound(hi.m, lo)
      [] lo.s = -1 /\ hi.s = 1 /\ RLe(lo.m, hi.m) -> TRUE

\* C30: under both strategies ci_lower <= ci_upper in every row of the
\* baseline table (percentile) and of the statistics table (z-band, after
\* the lower bound has been clipped at 0).
C30_BandWellFormed ==
    \A i \in DOMAIN baseline_df :
        IF strategy = "zband"
        THEN BoundLe(baseline_df[i].ci_lower, baseline_df[i].ci_upper)
        ELSE RLe(baseline_df[i].ci_lower, baseline_df[i].ci_upper)

=============================================================================
